---- MODULE Spec2Model ----
(***************************************************************************)
(* Sales analysis: the singleton DataLoader, the SalesRepository queries,  *)
(* the strategy classes and the AnalysisFactory of sales_analysis.py, as a *)
(* state machine over the loader object, the handles callers hold and the  *)
(* strategy a caller has created.                                          *)
(***************************************************************************)
EXTENDS Integers, Sequences, FiniteSets, TLC

VARIABLES
    fs,         \* the file system: path -> file (never written by the program)
    instance,   \* DataLoader._instance: 0 is None, else an object id
    heap,       \* the DataLoader objects: id -> [file_path, data]
    repos,      \* the SalesRepository objects callers hold, each its data_loader id
    analysis,   \* the strategy object the caller created last (or None)
    last,       \* what the last call did: its arguments, result or exception
    frames,     \* the DataFrame objects threads share: reference -> frame
    threads     \* each thread's call in progress: its position and locals

vars == <<fs, instance, heap, repos, analysis, last, frames, threads>>

\* Bounds of the model.
MaxObjects == 2     \* DataLoader objects the heap can hold
MaxRows == 2        \* rows of a generated CSV file whose rows differ in date, product, amount
MaxBranchRows == 4  \* rows of a generated CSV file whose rows differ in branch_id
MaxThreads == 3     \* threads calling the shared loader at once

-----------------------------------------------------------------------------
\* Python values.

None == [type |-> "NoneType"]

NoExc == [type |-> "", msg |-> ""]

Exc(t, m) == [type |-> t, msg |-> m]

\* A missing cell (NaN / NaT / <NA>).
NaN == "NaN"

Max(S) == CHOOSE m \in S : \A n \in S : n <= m

Min(S) == CHOOSE m \in S : \A n \in S : m <= n

RECURSIVE SumSeq(_)
SumSeq(s) == IF s = <<>> THEN 0 ELSE Head(s) + SumSeq(Tail(s))

\* The elements of a finite set of integers in ascending order.
RECURSIVE SortedSeq(_)
SortedSeq(S) == IF S = {} THEN <<>> ELSE <<Min(S)>> \o SortedSeq(S \ {Min(S)})

-----------------------------------------------------------------------------
\* Text <-> integer, as read_csv's type inference and astype(str) do it.

Digits == <<"0", "1", "2", "3", "4", "5", "6", "7", "8", "9">>

DigitVal(c) == CHOOSE d \in 0..9 : Digits[d + 1] = c

\* The branch_id cells a file can hold, as lists of characters.
BranchTexts == {<<"1">>, <<"2">>, <<"0", "2">>, <<"A", "7">>}

RECURSIVE Join(_)
Join(cs) == IF cs = <<>> THEN "" ELSE Head(cs) \o Join(Tail(cs))

IsIntText(cs) == cs # <<>> /\ \A i \in 1..Len(cs) : \E d \in 0..9 : Digits[d + 1] = cs[i]

RECURSIVE ParseInt(_)
ParseInt(cs) ==
    IF Len(cs) = 1 THEN DigitVal(cs[1])
    ELSE 10 * ParseInt(SubSeq(cs, 1, Len(cs) - 1)) + DigitVal(cs[Len(cs)])

\* str(n) for n >= 0.
RECURSIVE Str(_)
Str(n) == IF n < 10 THEN Digits[n + 1] ELSE Str(n \div 10) \o Digits[(n % 10) + 1]

-----------------------------------------------------------------------------
\* Dates: pd.to_datetime on the ISO texts the files use, and the ISO week of
\* a date (Series.dt.isocalendar().week).

DateTexts == {"2023-01-01", "2023-01-02", "2023-01-03", "2023-01-04",
              "2023-01-08", "2023-01-15"}

\* A cell pd.to_datetime cannot parse.
BadDate == "not-a-date"

\* to_datetime of one well-formed cell: <<year, month, day>>.
ToDatetime(t) ==
    CASE t = "2023-01-01" -> <<2023, 1, 1>>
      [] t = "2023-01-02" -> <<2023, 1, 2>>
      [] t = "2023-01-03" -> <<2023, 1, 3>>
      [] t = "2023-01-04" -> <<2023, 1, 4>>
      [] t = "2023-01-08" -> <<2023, 1, 8>>
      [] t = "2023-01-15" -> <<2023, 1, 15>>

DaysBefore == <<0, 31, 59, 90, 120, 151, 181, 212, 243, 273, 304, 334>>

\* ISO weekday (Monday = 1) of 1 January, and the ISO weeks of the year before.
Jan1Weekday(y) == CASE y = 2023 -> 7 [] y = 2024 -> 1

WeeksOfPreviousYear(y) == CASE y = 2023 -> 52 [] y = 2024 -> 52

IsoWeek(d) ==
    LET doy == DaysBefore[d[2]] + d[3]
        wd  == ((doy - 1 + Jan1Weekday(d[1]) - 1) % 7) + 1
        w   == (doy - wd + 10) \div 7
    IN  IF w < 1 THEN WeeksOfPreviousYear(d[1]) ELSE w

-----------------------------------------------------------------------------
\* Files.

Columns == {"branch_id", "date", "product_id", "sales_amount", "price"}

Line(b, d, p, s, pr) ==
    [branch_id |-> b, date |-> d, product_id |-> p, sales_amount |-> s, price |-> pr]

CsvFile(cols, lines) == [exists |-> TRUE, kind |-> "csv", columns |-> cols, lines |-> lines]

OtherFile(k) == [exists |-> TRUE, kind |-> k, columns |-> {}, lines |-> <<>>]

NoFile == [exists |-> FALSE, kind |-> "", columns |-> {}, lines |-> <<>>]

\* The data of test_sales_analysis.py.
UnitTestCsv ==
    CsvFile(Columns,
        << Line(<<"1">>, "2023-01-01", 101, 100, 10),
           Line(<<"1">>, "2023-01-08", 101, 150, 10),
           Line(<<"1">>, "2023-01-15", 102, 200, 20),
           Line(<<"2">>, "2023-01-01", 101, 120, 10),
           Line(<<"2">>, "2023-01-08", 103, 130, 15),
           Line(<<"2">>, "2023-01-15", 104, 140, 20) >>)

\* The data of test_sales_integration.py.
IntegrationCsv ==
    CsvFile(Columns,
        << Line(<<"1">>, "2023-01-01", 101, 5, 100),
           Line(<<"1">>, "2023-01-01", 102, 3, 150),
           Line(<<"2">>, "2023-01-02", 101, 2, 100),
           Line(<<"2">>, "2023-01-03", 103, 7, 200),
           Line(<<"1">>, "2023-01-04", 104, 1, 300) >>)

\* A file whose header has no branch_id column.
NoBranchCsv ==
    CsvFile(Columns \ {"branch_id"},
        << Line(<<"1">>, "2023-01-01", 101, 100, 10),
           Line(<<"1">>, "2023-01-08", 102, 100, 10) >>)

\* A file with textual branch ids, an empty date cell and a malformed date.
StoresCsv ==
    CsvFile(Columns,
        << Line(<<"A", "7">>, "2023-01-02", 101, 100, 10),
           Line(<<"0", "2">>, "", 102, 100, 10),
           Line(<<"A", "7">>, BadDate, 101, 150, 10) >>)

Paths == {"sales_data.csv", "dummy_path.csv", "no_branch.csv", "stores.csv",
          "missing.csv", "empty.csv", "garbled.csv", "reports"}

FixedFiles ==
    [p \in Paths |->
        CASE p = "sales_data.csv" -> UnitTestCsv
          [] p = "dummy_path.csv" -> IntegrationCsv
          [] p = "no_branch.csv"  -> NoBranchCsv
          [] p = "stores.csv"     -> StoresCsv
          [] p = "missing.csv"    -> NoFile
          [] p = "empty.csv"      -> OtherFile("empty")
          [] p = "garbled.csv"    -> OtherFile("garbled")
          [] p = "reports"        -> OtherFile("directory")]

\* os.path.exists
PathExists(p) == fs[p].exists

-----------------------------------------------------------------------------
\* DataFrames: the dtype of each column and the rows, each row carrying its
\* index label and one cell per column.

DataFrame(dtypes, rows) == [type |-> "DataFrame", dtypes |-> dtypes, rows |-> rows]

ColumnsOf(df) == DOMAIN df.dtypes

\* pd.read_csv on a well-formed file: a column whose cells all parse as
\* integers becomes int64, any other column stays text (object).
ReadCsv(f) ==
    LET n    == Len(f.lines)
        ints == n > 0 /\ \A i \in 1..n : IsIntText(f.lines[i].branch_id)
        dt   == [c \in f.columns |->
                    IF c = "branch_id" THEN (IF ints THEN "int64" ELSE "object")
                    ELSE IF c = "date" THEN "object" ELSE "int64"]
        cell(i, c) ==
            IF c = "index" THEN i - 1
            ELSE IF c = "branch_id"
                 THEN (IF ints THEN ParseInt(f.lines[i].branch_id)
                       ELSE Join(f.lines[i].branch_id))
            ELSE IF c = "date"
                 THEN (IF f.lines[i].date = "" THEN NaN ELSE f.lines[i].date)
            ELSE f.lines[i][c]
    IN  DataFrame(dt, [i \in 1..n |-> [c \in f.columns \cup {"index"} |-> cell(i, c)]])

\* df[col] = df[col].astype(str)
AsTypeStr(df, col) ==
    DataFrame([df.dtypes EXCEPT ![col] = "object"],
              [i \in 1..Len(df.rows) |->
                  [df.rows[i] EXCEPT ![col] =
                      IF df.dtypes[col] = "int64" THEN Str(df.rows[i][col])
                      ELSE df.rows[i][col]]])

-----------------------------------------------------------------------------
\* DataLoader.

Loader(path, data) == [file_path |-> path, data |-> data]

\* str(KeyError(col))
KeyErrorMsg(col) == "'" \o col \o "'"

\* What pd.read_csv raises on a path that exists but holds no table.
ReadCsvError(p) ==
    CASE fs[p].kind = "empty"     -> Exc("EmptyDataError", "No columns to parse from file")
      [] fs[p].kind = "garbled"   -> Exc("ParserError", "Error tokenizing data")
      [] fs[p].kind = "directory" ->
            Exc("IsADirectoryError", "[Errno 21] Is a directory: '" \o p \o "'")

\* DataLoader._load_data on the object self: the object afterwards, the
\* exception raised (NoExc when none) and how often the file was read.
LoadData(self) ==
    LET p == self.file_path IN
    IF ~PathExists(p)
    THEN [obj |-> self, reads |-> 0,
          exc |-> Exc("FileNotFoundError", "The file " \o p \o " does not exist.")]
    ELSE IF fs[p].kind # "csv"
    THEN [obj |-> self, reads |-> 1,
          exc |-> LET e == ReadCsvError(p) IN
                  CASE e.type = "EmptyDataError" -> Exc("ValueError", "The file is empty.")
                    [] e.type = "ParserError" -> Exc("ValueError", "Error parsing the file.")
                    [] OTHER -> Exc("IOError",
                                    "An unexpected error occurred while reading the file "
                                    \o p \o ": " \o e.msg)]
    ELSE LET df == ReadCsv(fs[p]) IN
         \* self.data is assigned before the column is normalised
         IF "branch_id" \notin ColumnsOf(df)
         THEN [obj |-> [self EXCEPT !.data = df], reads |-> 1,
               exc |-> Exc("IOError",
                           "An unexpected error occurred while reading the file "
                           \o p \o ": " \o KeyErrorMsg("branch_id"))]
         ELSE [obj |-> [self EXCEPT !.data = AsTypeStr(df, "branch_id")], reads |-> 1,
               exc |-> NoExc]

\* DataLoader.get_data: as LoadData, with the dataset returned.
GetData(self) ==
    IF self.data = None
    THEN LET r == LoadData(self) IN
         [obj |-> r.obj, reads |-> r.reads, exc |-> r.exc,
          ret |-> IF r.exc = NoExc THEN r.obj.data ELSE None]
    ELSE [obj |-> self, reads |-> 0, exc |-> NoExc, ret |-> self.data]

-----------------------------------------------------------------------------
\* SalesRepository.  Every query yields outcomes [obj, reads, exc, ret]: the
\* loader object afterwards, the file reads, the exception raised (NoExc when
\* none) and the value returned.

Raise(obj, reads, e) == [obj |-> obj, reads |-> reads, exc |-> e, ret |-> None]

Return(obj, reads, v) == [obj |-> obj, reads |-> reads, exc |-> NoExc, ret |-> v]

\* The message prefix of each query's except clause.
ErrorPrefix(report) ==
    CASE report = "monthly_sales"      -> "Error fetching monthly sales data: "
      [] report = "price"              -> "Error fetching product price analysis: "
      [] report = "weekly_sales"       -> "Error fetching weekly sales data: "
      [] report = "product_preference" -> "Error fetching product preference data: "
      [] report = "sales_distribution" -> "Error fetching sales distribution data: "

\* Reraise without the except clause: the exception leaves as it came.
ReraiseBare(report, r) == r

\* except Exception as e: raise ValueError(f"Error fetching ...: {e}")
Reraise(report, r) ==
    IF r.exc = NoExc THEN r
    ELSE Raise(r.obj, r.reads, Exc("ValueError", ErrorPrefix(report) \o r.exc.msg))

\* df[mask]: the rows whose mask is true, in order, index labels kept.
RECURSIVE BoolIndex(_, _)
BoolIndex(rows, mask) ==
    IF rows = <<>> THEN <<>>
    ELSE (IF Head(mask) THEN <<Head(rows)>> ELSE <<>>) \o BoolIndex(Tail(rows), Tail(mask))

\* EqText with the comparison inverted.
NeText(df, col, b) ==
    [i \in 1..Len(df.rows) |-> ~(df.dtypes[col] = "object" /\ df.rows[i][col] = b)]

\* df[col] == text: elementwise; a non-text column equals no text.
EqText(df, col, b) ==
    [i \in 1..Len(df.rows) |-> df.dtypes[col] = "object" /\ df.rows[i][col] = b]

\* MonthlySalesBody without the check for an empty selection.
MonthlySalesBodyNoCheck(self, branch_id) ==
    LET g == GetData(self) IN
    IF g.exc # NoExc THEN Raise(g.obj, g.reads, g.exc)
    ELSE IF "branch_id" \notin ColumnsOf(g.ret)
    THEN Raise(g.obj, g.reads, Exc("KeyError", KeyErrorMsg("branch_id")))
    ELSE Return(g.obj, g.reads,
                DataFrame(g.ret.dtypes,
                          BoolIndex(g.ret.rows, EqText(g.ret, "branch_id", branch_id))))

MonthlySalesBody(self, branch_id) ==
    LET g == GetData(self) IN
    IF g.exc # NoExc THEN Raise(g.obj, g.reads, g.exc)
    ELSE IF "branch_id" \notin ColumnsOf(g.ret)
    THEN Raise(g.obj, g.reads, Exc("KeyError", KeyErrorMsg("branch_id")))
    ELSE LET branch_data ==
                 DataFrame(g.ret.dtypes,
                           BoolIndex(g.ret.rows, EqText(g.ret, "branch_id", branch_id)))
         IN  IF branch_data.rows = <<>>
             THEN Raise(g.obj, g.reads,
                        Exc("ValueError", "No data found for branch ID: " \o branch_id))
             ELSE Return(g.obj, g.reads, branch_data)

GetMonthlySales(self, branch_id) == Reraise("monthly_sales", MonthlySalesBody(self, branch_id))

\* A missing week number (<NA>); ISO weeks are 1..53.
NoWeek == 0

\* Series.isna(), by the column's dtype.
IsMissing(df, col, v) ==
    IF df.dtypes[col] = "object" THEN v = NaN
    ELSE IF df.dtypes[col] = "UInt32" THEN v = NoWeek
    ELSE FALSE

\* The rows of each group of df.groupby(key): rows with a missing key are in
\* no group.
InGroup(df, key, k) ==
    [i \in 1..Len(df.rows) |->
        ~IsMissing(df, key, df.rows[i][key]) /\ df.rows[i][key] = k]

\* The group keys of df.groupby(key): the distinct values, missing ones dropped.
GroupKeys(df, key) ==
    {df.rows[i][key] :
        i \in {j \in 1..Len(df.rows) : ~IsMissing(df, key, df.rows[j][key])}}

\* The cells of column col in the group of key value k.
GroupCells(df, key, k, col) ==
    LET rows == BoolIndex(df.rows, InGroup(df, key, k)) IN
    [i \in 1..Len(rows) |-> rows[i][col]]

\* Series.describe(), as far as integers express it: count, mean (as a
\* fraction), min and max.
Describe(cells) ==
    LET S == {cells[i] : i \in 1..Len(cells)} IN
    IF cells = <<>>
    THEN [count |-> 0, mean |-> NaN, min |-> NaN, max |-> NaN]
    ELSE [count |-> Len(cells), mean |-> <<SumSeq(cells), Len(cells)>>,
          min |-> Min(S), max |-> Max(S)]

PriceAnalysisBody(self) ==
    LET g == GetData(self) IN
    IF g.exc # NoExc THEN Raise(g.obj, g.reads, g.exc)
    ELSE IF "product_id" \notin ColumnsOf(g.ret)
    THEN Raise(g.obj, g.reads, Exc("KeyError", KeyErrorMsg("product_id")))
    ELSE IF "price" \notin ColumnsOf(g.ret)
    THEN Raise(g.obj, g.reads, Exc("KeyError", "'Column not found: price'"))
    ELSE LET keys == SortedSeq(GroupKeys(g.ret, "product_id")) IN
         Return(g.obj, g.reads,
                [i \in 1..Len(keys) |->
                    [product_id |-> keys[i],
                     price |-> Describe(GroupCells(g.ret, "product_id", keys[i], "price"))]])

GetProductPriceAnalysis(self) == Reraise("price", PriceAnalysisBody(self))

\* pd.to_datetime(df['date']).dt.isocalendar().week: the week of each row, or
\* the ValueError of the first cell that is no date.
IsDate(v) == v # NaN /\ v \in DateTexts

BadDateRows(df) == {i \in 1..Len(df.rows) : df.rows[i].date # NaN /\ ~IsDate(df.rows[i].date)}

WeekOf(v) == IF v = NaN THEN NoWeek ELSE IsoWeek(ToDatetime(v))

\* df['week'] = weeks: the column is added to (or replaced in) the frame itself.
SetWeek(df) ==
    DataFrame([c \in ColumnsOf(df) \cup {"week"} |->
                  IF c = "week" THEN "UInt32" ELSE df.dtypes[c]],
              [i \in 1..Len(df.rows) |->
                  [c \in DOMAIN df.rows[i] \cup {"week"} |->
                      IF c = "week" THEN WeekOf(df.rows[i].date) ELSE df.rows[i][c]]])

\* df.groupby(key)[col].sum(): one entry per group key, keys ascending.
GroupSum(df, key, col) ==
    LET keys == SortedSeq(GroupKeys(df, key)) IN
    [i \in 1..Len(keys) |->
        [key |-> keys[i], value |-> SumSeq(GroupCells(df, key, keys[i], col))]]

WeeklySalesBody(self) ==
    LET g == GetData(self) IN
    IF g.exc # NoExc THEN Raise(g.obj, g.reads, g.exc)
    ELSE IF "date" \notin ColumnsOf(g.ret)
    THEN Raise(g.obj, g.reads, Exc("KeyError", KeyErrorMsg("date")))
    ELSE IF BadDateRows(g.ret) # {}
    THEN Raise(g.obj, g.reads,
               Exc("ValueError", "Unknown datetime string format, unable to parse: "
                                 \o g.ret.rows[Min(BadDateRows(g.ret))].date))
    ELSE LET data == SetWeek(g.ret)
             obj  == [g.obj EXCEPT !.data = data]
         IN  IF "sales_amount" \notin ColumnsOf(data)
             THEN Raise(obj, g.reads, Exc("KeyError", "'Column not found: sales_amount'"))
             ELSE Return(obj, g.reads, GroupSum(data, "week", "sales_amount"))

GetWeeklySales(self) == Reraise("weekly_sales", WeeklySalesBody(self))

\* SortValuesDescending with the order inverted (ascending=True).
SortValuesAscending(series) ==
    LET n == Len(series) IN
    { [i \in 1..n |-> series[p[i]]] :
        p \in { q \in Permutations(1..n) :
                  \A i, j \in 1..n : i < j => series[q[i]].value <= series[q[j]].value } }

\* Series.sort_values(ascending=False) with the default quicksort, which is
\* not stable: every arrangement with the values descending is a possible
\* result, entries with equal values in any order.
SortValuesDescending(series) ==
    LET n == Len(series) IN
    { [i \in 1..n |-> series[p[i]]] :
        p \in { q \in Permutations(1..n) :
                  \A i, j \in 1..n : i < j => series[q[i]].value >= series[q[j]].value } }

\* The outcomes of get_product_preference, one per possible arrangement.
ProductPreferenceBody(self) ==
    LET g == GetData(self) IN
    IF g.exc # NoExc THEN {Raise(g.obj, g.reads, g.exc)}
    ELSE IF "product_id" \notin ColumnsOf(g.ret)
    THEN {Raise(g.obj, g.reads, Exc("KeyError", KeyErrorMsg("product_id")))}
    ELSE IF "sales_amount" \notin ColumnsOf(g.ret)
    THEN {Raise(g.obj, g.reads, Exc("KeyError", "'Column not found: sales_amount'"))}
    ELSE {Return(g.obj, g.reads, s) :
            s \in SortValuesDescending(GroupSum(g.ret, "product_id", "sales_amount"))}

GetProductPreference(self) ==
    {Reraise("product_preference", r) : r \in ProductPreferenceBody(self)}

SalesDistributionBody(self) ==
    LET g == GetData(self) IN
    IF g.exc # NoExc THEN Raise(g.obj, g.reads, g.exc)
    ELSE IF "sales_amount" \notin ColumnsOf(g.ret)
    THEN Raise(g.obj, g.reads, Exc("KeyError", KeyErrorMsg("sales_amount")))
    ELSE Return(g.obj, g.reads,
                Describe([i \in 1..Len(g.ret.rows) |-> g.ret.rows[i].sales_amount]))

GetSalesDistribution(self) == Reraise("sales_distribution", SalesDistributionBody(self))

-----------------------------------------------------------------------------
\* Strategies and the factory.

MonthlySalesAnalysis(repo, branch_id) ==
    [cls |-> "MonthlySalesAnalysis", repo |-> repo, branch_id |-> branch_id]

Strategy(cls, repo) == [cls |-> cls, repo |-> repo]

AnalysisTypes ==
    {"monthly_sales", "price", "weekly_sales", "product_preference", "sales_distribution"}

\* Names the factory can be handed, among them names it does not know.
TypeArgs == AnalysisTypes \cup {"Price", "forecast"}

\* Branch ids callers ask for.
BranchArgs == {"1", "2", "02", "A7"}

\* The keyword arguments of a create_analysis call.
NoKwargs == [k \in {} |-> ""]

KwargsSet == {NoKwargs} \cup {[branch_id |-> b] : b \in BranchArgs}

\* CreateAnalysis with the strategies of weekly_sales and product_preference
\* exchanged.
CreateAnalysisSwapped(analysis_type, repo, kwargs) ==
    IF analysis_type = "monthly_sales"
    THEN (IF "branch_id" \in DOMAIN kwargs
          THEN [exc |-> NoExc, ret |-> MonthlySalesAnalysis(repo, kwargs.branch_id)]
          ELSE [exc |-> Exc("KeyError", KeyErrorMsg("branch_id")), ret |-> None])
    ELSE IF analysis_type = "price"
    THEN [exc |-> NoExc, ret |-> Strategy("PriceAnalysis", repo)]
    ELSE IF analysis_type = "weekly_sales"
    THEN [exc |-> NoExc, ret |-> Strategy("ProductPreferenceAnalysis", repo)]
    ELSE IF analysis_type = "product_preference"
    THEN [exc |-> NoExc, ret |-> Strategy("WeeklySalesAnalysis", repo)]
    ELSE IF analysis_type = "sales_distribution"
    THEN [exc |-> NoExc, ret |-> Strategy("SalesDistributionAnalysis", repo)]
    ELSE [exc |-> Exc("ValueError", "Unknown analysis type"), ret |-> None]

\* AnalysisFactory.create_analysis: the strategy returned or the exception.
CreateAnalysis(analysis_type, repo, kwargs) ==
    IF analysis_type = "monthly_sales"
    THEN (IF "branch_id" \in DOMAIN kwargs
          THEN [exc |-> NoExc, ret |-> MonthlySalesAnalysis(repo, kwargs.branch_id)]
          ELSE [exc |-> Exc("KeyError", KeyErrorMsg("branch_id")), ret |-> None])
    ELSE IF analysis_type = "price"
    THEN [exc |-> NoExc, ret |-> Strategy("PriceAnalysis", repo)]
    ELSE IF analysis_type = "weekly_sales"
    THEN [exc |-> NoExc, ret |-> Strategy("WeeklySalesAnalysis", repo)]
    ELSE IF analysis_type = "product_preference"
    THEN [exc |-> NoExc, ret |-> Strategy("ProductPreferenceAnalysis", repo)]
    ELSE IF analysis_type = "sales_distribution"
    THEN [exc |-> NoExc, ret |-> Strategy("SalesDistributionAnalysis", repo)]
    ELSE [exc |-> Exc("ValueError", "Unknown analysis type"), ret |-> None]

\* The query an outcome came from.
Called(query, r) ==
    [query |-> query, obj |-> r.obj, reads |-> r.reads, exc |-> r.exc, ret |-> r.ret]

\* analyze() of each strategy class, on the loader object of its repository.
StrategyAnalyze(st, self) ==
    CASE st.cls = "MonthlySalesAnalysis" ->
            {Called("get_monthly_sales", GetMonthlySales(self, st.branch_id))}
      [] st.cls = "PriceAnalysis" ->
            {Called("get_product_price_analysis", GetProductPriceAnalysis(self))}
      [] st.cls = "WeeklySalesAnalysis" ->
            {Called("get_weekly_sales", GetWeeklySales(self))}
      [] st.cls = "ProductPreferenceAnalysis" ->
            {Called("get_product_preference", r) : r \in GetProductPreference(self)}
      [] st.cls = "SalesDistributionAnalysis" ->
            {Called("get_sales_distribution", GetSalesDistribution(self))}

-----------------------------------------------------------------------------
\* The state machine.

Call(op, arg, kwargs, self, query, reads, exc, ret) ==
    [op |-> op, arg |-> arg, kwargs |-> kwargs, self |-> self, query |-> query,
     reads |-> reads, exc |-> exc, ret |-> ret]

\* DataLoaderNew without the test of _instance: every call makes an object.
DataLoaderNewAlways == [id |-> Len(heap) + 1, instance |-> Len(heap) + 1]

\* DataLoader.__new__: the object id returned and _instance afterwards; a new
\* object is made only while _instance is None.
DataLoaderNew ==
    IF instance = 0
    THEN [id |-> Len(heap) + 1, instance |-> Len(heap) + 1]
    ELSE [id |-> instance, instance |-> instance]

\* DataLoaderInit without the reset of self.data.
DataLoaderInitKeepsData(self, file_path) ==
    LoadData([self EXCEPT !.file_path = file_path])

\* DataLoader.__init__ on the object __new__ returned, fresh or not: both
\* attributes are reset, then the file is loaded.
DataLoaderInit(self, file_path) ==
    LoadData([self EXCEPT !.file_path = file_path, !.data = None])

\* data_loader = DataLoader(file_path); repo = SalesRepository(data_loader)
Construct(file_path) ==
    LET new == DataLoaderNew
        r   == DataLoaderInit(IF new.id \in DOMAIN heap THEN heap[new.id]
                              ELSE Loader("", None), file_path)
    IN  /\ new.id <= MaxObjects
        /\ instance' = new.instance
        /\ heap' = [i \in 1..Max({Len(heap), new.id}) |-> IF i = new.id THEN r.obj ELSE heap[i]]
        /\ repos' = IF r.exc = NoExc THEN repos \cup {new.id} ELSE repos
        /\ last' = Call("DataLoader", file_path, NoKwargs, new.id, "", r.reads, r.exc, None)
        /\ UNCHANGED <<fs, analysis, frames, threads>>

\* analysis = AnalysisFactory.create_analysis(analysis_type, repo, **kwargs)
Create(analysis_type, repo, kwargs) ==
    LET r == CreateAnalysis(analysis_type, repo, kwargs) IN
    /\ repo \in repos
    /\ analysis' = IF r.exc = NoExc THEN r.ret ELSE analysis
    /\ last' = Call("create_analysis", analysis_type, kwargs, repo, "", 0, r.exc, r.ret)
    /\ UNCHANGED <<fs, instance, heap, repos, frames, threads>>

\* result = analysis.analyze()
Analyze ==
    /\ analysis # None
    /\ \E r \in StrategyAnalyze(analysis, heap[analysis.repo]) :
          /\ heap' = [heap EXCEPT ![analysis.repo] = r.obj]
          /\ last' = Call("analyze", analysis.cls, NoKwargs, analysis.repo, r.query,
                          r.reads, r.exc, r.ret)
    /\ UNCHANGED <<fs, instance, repos, analysis, frames, threads>>

Init ==
    /\ fs = FixedFiles
    /\ instance = 0
    /\ heap = <<>>
    /\ repos = {}
    /\ analysis = None
    /\ last = Call("", "", NoKwargs, 0, "", 0, NoExc, None)
    /\ frames = <<>>
    /\ threads = <<>>

Next ==
    \/ \E p \in Paths : Construct(p)
    \/ \E t \in TypeArgs, repo \in repos, kw \in KwargsSet : Create(t, repo, kw)
    \/ Analyze

Spec == Init /\ [][Next]_vars

-----------------------------------------------------------------------------
\* The queries on generated files: the web shell's start-up (the loader built
\* on sales_data.csv) and its request handler, for every small CSV content.

GenBranches == {<<"1">>}

\* Two dates in different ISO weeks and the empty cell.
GenDates == {"2023-01-01", "2023-01-08", ""}

GenProducts == {101, 102}

GenAmounts == {100, 150}

GenLines ==
    {Line(b, d, p, a, 10) : b \in GenBranches, d \in GenDates, p \in GenProducts,
                            a \in GenAmounts}

\* Lines that differ in their branch_id cell only.
GenBranchLines == {Line(b, "2023-01-01", 101, 100, 10) : b \in BranchTexts}

GenFiles ==
    {CsvFile(Columns, lines) :
        lines \in UNION ({[1..n -> GenLines] : n \in 0..MaxRows}
                         \cup {[1..n -> GenBranchLines] : n \in 1..MaxBranchRows})}

\* index(): the strategy is created and analysed in one request; any
\* exception of either step becomes the page's error.
Request(analysis_type, branch_id) ==
    \E repo \in repos :
        LET kwargs == IF analysis_type = "monthly_sales"
                      THEN [branch_id |-> branch_id] ELSE NoKwargs
            c == CreateAnalysis(analysis_type, repo, kwargs)
        IN  IF c.exc # NoExc
            THEN /\ last' = Call("index", analysis_type, kwargs, repo, "", 0, c.exc, None)
                 /\ UNCHANGED <<fs, instance, heap, repos, analysis, frames, threads>>
            ELSE \E r \in StrategyAnalyze(c.ret, heap[repo]) :
                    /\ heap' = [heap EXCEPT ![repo] = r.obj]
                    /\ analysis' = c.ret
                    /\ last' = Call("index", analysis_type, kwargs, repo, r.query,
                                    r.reads, r.exc, r.ret)
                    /\ UNCHANGED <<fs, instance, repos, frames, threads>>

InitQ ==
    /\ fs \in {[FixedFiles EXCEPT !["sales_data.csv"] = f] : f \in GenFiles}
    /\ instance = 1
    /\ heap = <<DataLoaderInit(Loader("", None), "sales_data.csv").obj>>
    /\ repos = {1}
    /\ analysis = None
    /\ last = Call("DataLoader", "sales_data.csv", NoKwargs, 1, "",
                   DataLoaderInit(Loader("", None), "sales_data.csv").reads, NoExc, None)
    /\ frames = <<>>
    /\ threads = <<>>

NextQ ==
    \/ \E t \in AnalysisTypes \ {"monthly_sales"} : Request(t, "")
    \/ \E b \in BranchArgs : Request("monthly_sales", b)
    \/ Request("forecast", "")

SpecQ == InitQ /\ [][NextQ]_vars

-----------------------------------------------------------------------------
\* Threads on the shared loader.  Each thread makes one call: DataLoader(path)
\* again (__new__ returns the singleton, __init__ runs on it), get_data() or
\* get_monthly_sales(branch_id).  A step is one statement of the source; the
\* interpreter can switch threads between any two of them.  A DataFrame is an
\* object of its own: self.data and a caller's variable hold references.

\* The file every thread's loader call names.
SharedPath == "sales_data.csv"

\* The branch a thread asks for.
ThreadBranch == "1"

Ref(k) == [type |-> "DataFrame*", id |-> k]

IsRef(v) == v # None

\* A thread: its position, its call, the column astype(str) gave it, and at
\* the end what the call returned or raised.
Thread(pc, op, arg, col, ret, exc) ==
    [pc |-> pc, op |-> op, arg |-> arg, col |-> col, ret |-> ret, exc |-> exc]

Idle == Thread("idle", "", "", <<>>, None, NoExc)

ThreadCalls ==
    {<<"DataLoader", SharedPath>>, <<"get_data", "">>,
     <<"get_monthly_sales", ThreadBranch>>}

\* The call of thread t ends: a return value or an exception; inside
\* get_monthly_sales the exception passes its except clause.
Done(t, ret, exc) ==
    LET th == threads[t]
        e  == IF exc # NoExc /\ th.op = "get_monthly_sales"
              THEN Reraise("monthly_sales", Raise(None, 0, exc)).exc ELSE exc
    IN  [threads EXCEPT ![t] = Thread("done", th.op, th.arg, <<>>, ret, e)]

Goto(t, pc) == [threads EXCEPT ![t].pc = pc]

\* except Exception as e: raise IOError(...) of _load_data
LoadIOError(e) ==
    Exc("IOError", "An unexpected error occurred while reading the file "
                   \o heap[1].file_path \o ": " \o e)

\* A thread starts its call.
StartCall(t) ==
    /\ threads[t].pc = "idle"
    /\ \E c \in ThreadCalls :
          threads' = [threads EXCEPT ![t] =
                         Thread(IF c[1] = "DataLoader" THEN "__init__" ELSE "get_data",
                                c[1], c[2], <<>>, None, NoExc)]
    /\ UNCHANGED <<fs, instance, heap, repos, analysis, last, frames>>


\* __init__: self.file_path = file_path
InitFilePath(t) ==
    /\ threads[t].pc = "__init__"
    /\ heap' = [heap EXCEPT ![1].file_path = threads[t].arg]
    /\ threads' = Goto(t, "reset")
    /\ UNCHANGED <<fs, instance, repos, analysis, last, frames>>

\* __init__: self.data = None
InitData(t) ==
    /\ threads[t].pc = "reset"
    /\ heap' = [heap EXCEPT ![1].data = None]
    /\ threads' = Goto(t, "_load_data")
    /\ UNCHANGED <<fs, instance, repos, analysis, last, frames>>

\* get_data: if self.data is None: self._load_data()
GetDataTest(t) ==
    /\ threads[t].pc = "get_data"
    /\ threads' = Goto(t, IF heap[1].data = None THEN "_load_data" ELSE "return")
    /\ UNCHANGED <<fs, instance, heap, repos, analysis, last, frames>>

\* _load_data: if not os.path.exists(self.file_path): raise FileNotFoundError
LoadExists(t) ==
    /\ threads[t].pc = "_load_data"
    /\ threads' = IF PathExists(heap[1].file_path) THEN Goto(t, "read_csv")
                  ELSE Done(t, None, LoadData(Loader(heap[1].file_path, None)).exc)
    /\ UNCHANGED <<fs, instance, heap, repos, analysis, last, frames>>

\* _load_data: self.data = pd.read_csv(self.file_path): a new frame, as read.
LoadReadCsv(t) ==
    /\ threads[t].pc = "read_csv"
    /\ IF fs[heap[1].file_path].kind = "csv"
       THEN /\ frames' = Append(frames, ReadCsv(fs[heap[1].file_path]))
            /\ heap' = [heap EXCEPT ![1].data = Ref(Len(frames) + 1)]
            /\ threads' = Goto(t, "astype")
       ELSE /\ threads' = Done(t, None, LoadData(Loader(heap[1].file_path, None)).exc)
            /\ UNCHANGED <<heap, frames>>
    /\ UNCHANGED <<fs, instance, repos, analysis, last>>

\* _load_data: the right-hand side self.data['branch_id'].astype(str), on the
\* frame self.data refers to now.
LoadAsType(t) ==
    /\ threads[t].pc = "astype"
    /\ threads' =
          IF heap[1].data = None
          THEN Done(t, None, LoadIOError("'NoneType' object is not subscriptable"))
          ELSE LET df == frames[heap[1].data.id] IN
               IF "branch_id" \notin ColumnsOf(df)
               THEN Done(t, None, LoadIOError(KeyErrorMsg("branch_id")))
               ELSE [threads EXCEPT ![t].pc = "setitem",
                                    ![t].col = [i \in 1..Len(df.rows) |->
                                        AsTypeStr(df, "branch_id").rows[i].branch_id]]
    /\ UNCHANGED <<fs, instance, heap, repos, analysis, last, frames>>

\* _load_data: the assignment self.data['branch_id'] = ..., in place on the
\* frame self.data refers to now; then _load_data returns.
LoadSetItem(t) ==
    /\ threads[t].pc = "setitem"
    /\ IF heap[1].data = None
       THEN /\ threads' = Done(t, None,
                   LoadIOError("'NoneType' object does not support item assignment"))
            /\ UNCHANGED frames
       ELSE LET k  == heap[1].data.id
                df == frames[k]
            IN  /\ frames' = [frames EXCEPT ![k] =
                      DataFrame([c \in ColumnsOf(df) \cup {"branch_id"} |->
                                    IF c = "branch_id" THEN "object" ELSE df.dtypes[c]],
                                [i \in 1..Len(df.rows) |->
                                    [c \in DOMAIN df.rows[i] \cup {"branch_id"} |->
                                        IF c = "branch_id" THEN threads[t].col[i]
                                        ELSE df.rows[i][c]]])]
                /\ threads' = IF threads[t].op = "DataLoader" THEN Done(t, None, NoExc)
                              ELSE Goto(t, "return")
    /\ UNCHANGED <<fs, instance, heap, repos, analysis, last>>


\* The object a reference (or None) stands for, as it is now.
Deref(v) == IF IsRef(v) THEN frames[v.id] ELSE None

\* get_data: return self.data.  A get_data() caller ends here, with the
\* dataset as it is when it receives it; get_monthly_sales goes on with the
\* reference.
GetDataReturn(t) ==
    /\ threads[t].pc = "return"
    /\ threads' = IF threads[t].op = "get_data"
                  THEN Done(t, Deref(heap[1].data), NoExc)
                  ELSE [threads EXCEPT ![t].pc = "query", ![t].ret = heap[1].data]
    /\ UNCHANGED <<fs, instance, heap, repos, analysis, last, frames>>

\* get_monthly_sales after data = self.data_loader.get_data(): the selection
\* on the frame the caller holds, as that frame is now.
MonthlySalesQuery(t) ==
    /\ threads[t].pc = "query"
    /\ LET data == Deref(threads[t].ret)
           r == IF data = None
                THEN Reraise("monthly_sales",
                         Raise(None, 0,
                               Exc("TypeError", "'NoneType' object is not subscriptable")))
                ELSE GetMonthlySales(Loader(heap[1].file_path, data), threads[t].arg)
       IN  threads' = [threads EXCEPT ![t] =
                          Thread("done", threads[t].op, threads[t].arg, <<>>, r.ret, r.exc)]
    /\ UNCHANGED <<fs, instance, heap, repos, analysis, last, frames>>

\* The loader constructed and loaded, its repository handed to the threads.
InitT ==
    /\ fs = FixedFiles
    /\ instance = 1
    /\ frames = <<DataLoaderInit(Loader("", None), SharedPath).obj.data>>
    /\ heap = <<Loader(SharedPath, Ref(1))>>
    /\ repos = {1}
    /\ analysis = None
    /\ last = Call("DataLoader", SharedPath, NoKwargs, 1, "", 1, NoExc, None)
    /\ threads = [t \in 1..MaxThreads |-> Idle]

NextT ==
    \E t \in 1..MaxThreads :
        \/ StartCall(t)
        \/ InitFilePath(t)
        \/ InitData(t)
        \/ GetDataTest(t)
        \/ LoadExists(t)
        \/ LoadReadCsv(t)
        \/ LoadAsType(t)
        \/ LoadSetItem(t)
        \/ GetDataReturn(t)
        \/ MonthlySalesQuery(t)

SpecT == InitT /\ [][NextT]_vars

-----------------------------------------------------------------------------
\* Properties.

\* The dataset the loader of the last call holds.
LastData == heap[last.self].data

IsFrame(v) == v # None

HasTextBranch(df) == "branch_id" \in ColumnsOf(df) /\ df.dtypes.branch_id = "object"

\* The positions of the rows of df whose branch_id is the text b.
BranchRows(df, b) == {i \in 1..Len(df.rows) : df.rows[i].branch_id = b}

\* C1: for a dataset obtained through the loader and a branch id b (text) that
\* occurs in it, get_monthly_sales(b) returns exactly the rows whose branch_id
\* equals b: no other row, as many rows as the dataset has with that branch,
\* and in the dataset's order.
C1_MonthlySalesExactRows ==
    (last.query = "get_monthly_sales" /\ IsFrame(LastData) /\ HasTextBranch(LastData)
        /\ BranchRows(LastData, analysis.branch_id) # {})
    => LET b   == analysis.branch_id
           out == last.ret.rows
       IN  /\ last.exc = NoExc
           /\ Len(LastData.rows) = Len(fs[heap[last.self].file_path].lines)
           /\ Len(out) = Cardinality(BranchRows(LastData, b))
           /\ \A k \in 1..Len(out) :
                 /\ out[k].branch_id = b
                 /\ out[k].index + 1 \in BranchRows(LastData, b)
                 /\ out[k] = LastData.rows[out[k].index + 1]
           /\ \A j, k \in 1..Len(out) : j < k => out[j].index < out[k].index

\* C1 witness: a selection of several rows that skips rows lying between them.
C1_Witness ==
    /\ last.query = "get_monthly_sales"
    /\ last.exc = NoExc
    /\ Len(last.ret.rows) >= 2
    /\ \E k \in 1..(Len(last.ret.rows) - 1) :
          last.ret.rows[k + 1].index > last.ret.rows[k].index + 1

\* C2: get_monthly_sales(id) for an id that matches no row of the cached
\* dataset raises the no-data error, returns nothing, and leaves the loader
\* and its dataset as they were.
C2_AbsentBranchRaises ==
    [][ (/\ last'.query = "get_monthly_sales"
         /\ IsFrame(heap[analysis'.repo].data)
         /\ HasTextBranch(heap[analysis'.repo].data)
         /\ BranchRows(heap[analysis'.repo].data, analysis'.branch_id) = {})
        => /\ last'.exc = Exc("ValueError",
                              "Error fetching monthly sales data: No data found for branch ID: "
                              \o analysis'.branch_id)
           /\ last'.ret = None
           /\ heap' = heap ]_vars

\* C2 witness: the query failed for an id absent from a loaded dataset.
C2_Witness ==
    /\ last.query = "get_monthly_sales"
    /\ last.exc # NoExc
    /\ IsFrame(LastData) /\ HasTextBranch(LastData)
    /\ LastData.rows # <<>>
    /\ BranchRows(LastData, analysis.branch_id) = {}

\* C3: a construction on a path that does not exist raises FileNotFoundError
\* without reading anything and leaves no dataset, and while the loader's
\* path does not exist every report (which reloads) fails with that error
\* wrapped: none returns a result.
C3_MissingFileFailsFirst ==
    /\ (last.op = "DataLoader" /\ ~fs[last.arg].exists)
       => /\ last.exc = Exc("FileNotFoundError", "The file " \o last.arg \o " does not exist.")
          /\ last.reads = 0
          /\ LastData = None
    /\ (last.op = "analyze" /\ ~fs[heap[last.self].file_path].exists)
       => /\ last.exc.type = "ValueError"
          /\ \E t \in AnalysisTypes :
                last.exc.msg = ErrorPrefix(t) \o "The file " \o heap[last.self].file_path
                               \o " does not exist."
          /\ last.ret = None
          /\ LastData = None

\* C3 witness: a report ran after a construction on a missing path.
C3_Witness ==
    /\ last.op = "analyze"
    /\ heap[last.self].file_path = "missing.csv"

\* C4: there is at most one DataLoader object; every handle a repository holds
\* is that object, so all repositories read the same cached dataset.
C4_SingleLoader ==
    /\ Len(heap) <= 1
    /\ instance = Len(heap)
    /\ \A r \in repos : r = instance
    /\ \A r1, r2 \in repos : heap[r1] = heap[r2]

\* C4 witness: a second construction, on another path, after a strategy was
\* created on the first handle.
C4_Witness ==
    /\ analysis # None
    /\ last.op = "DataLoader"
    /\ last.exc = NoExc
    /\ last.arg = "dummy_path.csv"

\* C5: whenever the loader holds a dataset, its branch_id column is text.
C5_BranchIdAlwaysText ==
    \A id \in DOMAIN heap : IsFrame(heap[id].data) => HasTextBranch(heap[id].data)

\* The sum of sales_amount over the rows of df at the positions I.
RECURSIVE SumAmounts(_, _)
SumAmounts(df, I) ==
    IF I = {} THEN 0
    ELSE LET i == CHOOSE x \in I : TRUE
         IN  df.rows[i].sales_amount + SumAmounts(df, I \ {i})

ProductRows(df, k) == {i \in 1..Len(df.rows) : df.rows[i].product_id = k}

\* One entry per distinct product_id, each with the sum of its sales_amount.
PreferenceEntries(df, out) ==
    /\ {out[k].key : k \in 1..Len(out)} = {df.rows[i].product_id : i \in 1..Len(df.rows)}
    /\ Len(out) = Cardinality({df.rows[i].product_id : i \in 1..Len(df.rows)})
    /\ \A k \in 1..Len(out) : out[k].value = SumAmounts(df, ProductRows(df, out[k].key))

\* C6 (as amended): get_product_preference returns one entry per distinct
\* product_id with the sum of its sales_amount, the sums never increasing
\* along the result; the order of products with equal sums is left open.
C6_PreferenceDescending ==
    (last.query = "get_product_preference" /\ last.exc = NoExc)
    => /\ PreferenceEntries(LastData, last.ret)
       /\ \A j, k \in 1..Len(last.ret) : j < k => last.ret[j].value >= last.ret[k].value

\* C6 witness: two products, the one with the larger id and the larger sum first.
C6_Witness ==
    /\ last.query = "get_product_preference"
    /\ last.exc = NoExc
    /\ Len(last.ret) = 2
    /\ last.ret[1].key > last.ret[2].key
    /\ last.ret[1].value > last.ret[2].value

\* C6 as stated: the entries are ordered strictly descending by sum, products
\* with equal sums in ascending product_id order.
C6_PreferenceTiesAscending ==
    (last.query = "get_product_preference" /\ last.exc = NoExc)
    => /\ PreferenceEntries(LastData, last.ret)
       /\ \A j, k \in 1..Len(last.ret) :
             j < k => \/ last.ret[j].value > last.ret[k].value
                      \/ /\ last.ret[j].value = last.ret[k].value
                         /\ last.ret[j].key < last.ret[k].key

\* C7: when get_weekly_sales succeeds, its per-week totals add up to the sum
\* of sales_amount over all rows of the dataset, no row dropped, and there is
\* one entry per ISO week number of the rows that have a date.
C7_WeeklyTotalsPartition ==
    (last.query = "get_weekly_sales" /\ last.exc = NoExc)
    => /\ SumSeq([k \in 1..Len(last.ret) |-> last.ret[k].value])
            = SumAmounts(LastData, 1..Len(LastData.rows))
       /\ {last.ret[k].key : k \in 1..Len(last.ret)}
            = {IsoWeek(ToDatetime(LastData.rows[i].date)) :
                 i \in {j \in 1..Len(LastData.rows) : LastData.rows[j].date # NaN}}

ClassOf(analysis_type) ==
    CASE analysis_type = "monthly_sales"      -> "MonthlySalesAnalysis"
      [] analysis_type = "price"              -> "PriceAnalysis"
      [] analysis_type = "weekly_sales"       -> "WeeklySalesAnalysis"
      [] analysis_type = "product_preference" -> "ProductPreferenceAnalysis"
      [] analysis_type = "sales_distribution" -> "SalesDistributionAnalysis"

ReportOf(cls) == CHOOSE t \in AnalysisTypes : ClassOf(t) = cls

\* The outcomes of the repository query that belongs to a report.
QueryOutcomes(report, self, branch_id) ==
    CASE report = "monthly_sales" ->
            {Called("get_monthly_sales", GetMonthlySales(self, branch_id))}
      [] report = "price" ->
            {Called("get_product_price_analysis", GetProductPriceAnalysis(self))}
      [] report = "weekly_sales" -> {Called("get_weekly_sales", GetWeeklySales(self))}
      [] report = "product_preference" ->
            {Called("get_product_preference", r) : r \in GetProductPreference(self)}
      [] report = "sales_distribution" ->
            {Called("get_sales_distribution", GetSalesDistribution(self))}

\* C8: create_analysis gives each of the five names its own strategy class on
\* the given repository (monthly_sales with the given branch_id), analyze()
\* of that strategy is the matching repository query, and any other name
\* raises "Unknown analysis type", creating no strategy and touching no loader.
C8_FactoryMapping ==
    [][ /\ (last'.op = "create_analysis" /\ last'.arg \in AnalysisTypes
              /\ (last'.arg = "monthly_sales" => "branch_id" \in DOMAIN last'.kwargs))
           => /\ last'.exc = NoExc
              /\ analysis' = last'.ret
              /\ analysis'.cls = ClassOf(last'.arg)
              /\ analysis'.repo = last'.self
              /\ last'.arg = "monthly_sales" => analysis'.branch_id = last'.kwargs.branch_id
              /\ heap' = heap
        /\ (last'.op = "create_analysis" /\ last'.arg \notin AnalysisTypes)
           => /\ last'.exc = Exc("ValueError", "Unknown analysis type")
              /\ last'.ret = None
              /\ analysis' = analysis
              /\ heap' = heap
        /\ last'.op = "analyze"
           => \E r \in QueryOutcomes(ReportOf(analysis.cls), heap[analysis.repo],
                                     IF analysis.cls = "MonthlySalesAnalysis"
                                     THEN analysis.branch_id ELSE "") :
                 /\ last'.query = r.query
                 /\ last'.exc = r.exc
                 /\ last'.ret = r.ret
                 /\ heap'[analysis.repo] = r.obj ]_vars

\* C8 witness: an unknown name was refused while an earlier strategy is held.
C8_Witness ==
    /\ last.op = "create_analysis"
    /\ last.arg = "forecast"
    /\ last.exc = Exc("ValueError", "Unknown analysis type")
    /\ analysis # None

\* The message of the fault the query of strategy st meets on the loader
\* object obj, as a set: empty when the query meets none.
FaultMsg(obj, st) ==
    LET g == GetData(obj) IN
    IF g.exc # NoExc THEN {g.exc.msg}
    ELSE IF st.cls = "MonthlySalesAnalysis"
    THEN (IF "branch_id" \notin ColumnsOf(g.ret) THEN {"'branch_id'"}
          ELSE IF BranchRows(g.ret, st.branch_id) = {}
          THEN {"No data found for branch ID: " \o st.branch_id}
          ELSE {})
    ELSE IF st.cls = "WeeklySalesAnalysis"
    THEN {"Unknown datetime string format, unable to parse: " \o g.ret.rows[i].date :
            i \in {j \in 1..Len(g.ret.rows) :
                     /\ g.ret.rows[j].date \notin DateTexts \cup {NaN}
                     /\ \A h \in 1..(j - 1) : g.ret.rows[h].date \in DateTexts \cup {NaN}}}
    ELSE {}

\* C9: a query that meets a fault (of the loader's reload, a missing column,
\* a malformed date, an absent branch) raises a ValueError whose message is
\* the report's own prefix followed by the fault's message and returns
\* nothing; a query that meets none raises nothing.
C9_FaultsAreWrapped ==
    [][ last'.op = "analyze"
        => LET f == FaultMsg(heap[analysis.repo], analysis) IN
           /\ f # {} => /\ last'.exc.type = "ValueError"
                        /\ last'.exc.msg \in {ErrorPrefix(ReportOf(analysis.cls)) \o m : m \in f}
                        /\ last'.ret = None
           /\ f = {} => last'.exc = NoExc ]_vars

\* C9 witness: the weekly query met a malformed date.
C9_Witness ==
    /\ last.op = "analyze"
    /\ last.exc = Exc("ValueError",
                      "Error fetching weekly sales data: "
                      \o "Unknown datetime string format, unable to parse: " \o BadDate)

\* The rows of a dataset without the derived week column.
BaseRows(df) ==
    [i \in 1..Len(df.rows) |-> [c \in DOMAIN df.rows[i] \ {"week"} |-> df.rows[i][c]]]

\* C10: once a load has succeeded the dataset stays cached: no later call
\* (construction or report) reads the file again, and the loader keeps
\* holding that dataset.
C10_CachedForLifetime ==
    [][ \A id \in DOMAIN heap :
          (IsFrame(heap[id].data) /\ HasTextBranch(heap[id].data))
          => /\ last'.reads = 0
             /\ IsFrame(heap'[id].data)
             /\ BaseRows(heap'[id].data) = BaseRows(heap[id].data) ]_vars

\* The loader object with its file loaded afresh.
FreshLoader(self) == LoadData([self EXCEPT !.data = None]).obj

\* C11: no report depends on another report's result: every report call
\* gives the result (value or exception) that the same call gives on a
\* freshly loaded dataset, and leaves the cached dataset as it was.
C11_ReportsIndependent ==
    [][ last'.query # ""
        => /\ \E r \in StrategyAnalyze(analysis', FreshLoader(heap[last'.self])) :
                 r.ret = last'.ret /\ r.exc = last'.exc
           /\ heap'[last'.self].data = heap[last'.self].data ]_vars

\* The dataset of the shared file, fully loaded.
LoadedDataset == FreshLoader(Loader(SharedPath, None)).data

\* C12: whatever the interleaving of loads, get_data() calls and reports on
\* the shared loader, every dataset a caller receives from get_data(), be it
\* the caller itself or a report on its behalf, is the fully loaded dataset
\* of the file: its branch_id is already normalised to text.
C12_CallersSeeLoadedDataset ==
    \A t \in DOMAIN threads :
        /\ (threads[t].pc = "done" /\ threads[t].op = "get_data"
                /\ IsFrame(threads[t].ret))
           => threads[t].ret = LoadedDataset
        /\ (threads[t].pc = "query" /\ IsRef(threads[t].ret))
           => Deref(threads[t].ret) = LoadedDataset

====
